---- MODULE Spec2Model ----
(***************************************************************************)
(* j4-dmenu-desktop: the command line assembler (CMDLineAssembler.cc), the *)
(* Exec key validator and tokenizer, and main.cc: the menu session, the    *)
(* catalog built at startup, the poll loop of the daemon, the history and  *)
(* the launch of the chosen command.                                       *)
(*                                                                         *)
(* Byte strings are sequences of one-character strings, so that find,      *)
(* substr, prefix tests and quoting are computed character by character.   *)
(***************************************************************************)
EXTENDS Integers, Sequences, FiniteSets, TLC

VARIABLES
    q_argv,     \* CMDLineAssembly: the argument vector handed to the assembler
    q_wrapper,  \* CMDLineAssembly: the wrapper handed to wrap_command_in_wrapper
    q_out,      \* CMDLineAssembly: the string or the vector the assembler returned
    q_pc,       \* "init" | "quoted" (sq_quote ran) | "joined" (convert_argv_to_string ran)
                \* | "wrapped" (wrap_command_in_wrapper ran) | "idle"
    e_key,      \* the Exec key handed to validate_exec_key and convert_exec_to_command
    e_quirks,   \* the ParsingQuirks handed to convert_exec_to_command
    e_diag,     \* what validate_exec_key returned, or Unset before the call
    e_conv,     \* whether convert_exec_to_command was called, and what it did
    orig_mapping,     \* main: appm.view_name_app_mapping(), in its iteration order
    case_insensitive, \* main: the --case-insensitive flag
    mapping,          \* main: the name_map built by format_name_app_mapping
    hist_on,          \* main: whether --usage-log gave a HistoryManager
    hist,             \* HistoryManager: the (count, name) list, as view() yields it
    lines,            \* Dmenu: the lines written in the last menu session
    query,            \* the choice read in the last menu session (<<>>: none)
    name_lookup,      \* lookup_name's result in the last menu session
    launched,         \* the last launch: a custom command as typed, or a desktop
                      \* entry with the args application_command receives
    sessions,         \* number of menu sessions run
    no_exec,          \* main: the --no-exec flag
    exit_status,      \* one-shot mode: the status the last run exited with
                      \* (-1: none, the process was replaced by the launch)
    disk,       \* the files under the search roots: (file name, rank) -> file
    catalog,    \* AppManager: per desktop ID the entry and the known sources
    pending,    \* NotifyBase: the changes not yet handed out by getchanges()
    fifo,       \* the bytes written to the control FIFO and not yet read
    d_pc,       \* do_wait_on: "main" | "poll" | "read_choice" | "returned" | "idle"
    d_status,   \* do_wait_on: the status returned (-1: none yet)
    d_log,      \* do_wait_on: the steps of the last wakeup, in execution order
    menus,      \* Dmenu: number of menu processes alive
    changes,    \* number of file changes made under the search roots so far
    bytes,      \* number of bytes written to the control FIFO so far
    l_in,       \* execute_app: what the caller holds when it launches
    l_out       \* execute_app: the invocation made

qvars == <<q_argv, q_wrapper, q_out, q_pc>>
evars == <<e_key, e_quirks, e_diag, e_conv>>
mvars == <<orig_mapping, case_insensitive, mapping, hist_on, hist, lines, query,
           name_lookup, launched, sessions, no_exec, exit_status>>
dvars == <<disk, catalog, pending, fifo, d_pc, d_status, d_log, menus, changes, bytes>>
lvars == <<l_in, l_out>>
vars == <<q_argv, q_wrapper, q_out, q_pc, e_key, e_quirks, e_diag, e_conv,
          orig_mapping, case_insensitive, mapping, hist_on, hist, lines, query,
          name_lookup, launched, sessions, no_exec, exit_status,
          disk, catalog, pending, fifo, d_pc, d_status, d_log, menus, changes, bytes,
          l_in, l_out>>

(***************************************************************************)
(* Bounds of the model.                                                    *)
(***************************************************************************)
\* Largest number of arguments of an argument vector.
MaxArgs == 2
\* Largest total number of characters of an argument vector.
MaxChars == 3
\* Largest length of an Exec key.
MaxExecLen == 4
\* Largest number of applications of the catalog.
MaxApps == 3
\* Largest number of menu sessions of one run.
MaxSessions == 2

(***************************************************************************)
(* Characters.                                                             *)
(***************************************************************************)
SQ == "'"
BSL == "\\"
SP == " "
DQ == "\""
DOLLAR == "$"
\* The grave accent (backquote) character; the TLA+ lexer takes no grave accent
\* in a string, so the character is written by name.
BTICK == "GRAVE"

\* The characters argument strings are drawn from: an ordinary character, the
\* single quote, the space, the backslash and a character that is special to
\* the shell outside single quotes.
QuoteAlphabet == {"a", SQ, SP, BSL, DOLLAR}

\* All strings over alphabet A of length at most n.
StrsUpTo(A, n) == UNION {[1..k -> A] : k \in 0..n}

\* All vectors of exactly k strings over A whose lengths add up to at most n.
RECURSIVE VecsOf(_, _, _)
VecsOf(A, k, n) ==
    IF k = 0 THEN {<<>>}
    ELSE UNION {{<<s>> \o v : v \in VecsOf(A, k - 1, n - Len(s))} : s \in StrsUpTo(A, n)}

ArgvInputs == UNION {VecsOf(QuoteAlphabet, k, MaxChars) : k \in 0..MaxArgs}

\* Three longer strings handed to sq_quote: it's a test, end' and plain.
ItsATest == <<"i", "t", SQ, "s", SP, "a", SP, "t", "e", "s", "t">>
EndQuote == <<"e", "n", "d", SQ>>
Plain == <<"p", "l", "a", "i", "n">>
QuoteExamples == {ItsATest, EndQuote, Plain}

(***************************************************************************)
(* std::string_view helpers as the code uses them (0-based positions).     *)
(***************************************************************************)
\* string_view::npos. size_t arithmetic: input.size() - 1 of an empty view
\* wraps to the same value, which Len(input) - 1 = -1 reproduces.
npos == -1

\* input.find(c): position of the first c, or npos.
Find(input, c) ==
    IF \E i \in 1..Len(input) : input[i] = c
    THEN (CHOOSE i \in 1..Len(input) :
              input[i] = c /\ \A j \in 1..(i - 1) : input[j] # c) - 1
    ELSE npos

\* input.substr(pos): the view from position pos to the end.
SubstrFrom(input, pos) == SubSeq(input, pos + 1, Len(input))

\* input.substr(0, count).
SubstrTo(input, count) == SubSeq(input, 1, count)

(***************************************************************************)
(* sq_quote                                                                *)
(***************************************************************************)
RECURSIVE sq_quote_loop(_, _, _)

\* A plausible slip: the closing quote after the last section is left out.
sq_quote_loop_noclose(result, input, where) ==
    IF where = Len(input) - 1
    THEN result \o SubstrTo(input, Len(input) - 1) \o <<SQ, BSL, SQ>>
    ELSE IF where = npos
    THEN result \o input
    ELSE sq_quote_loop(result \o SubstrTo(input, where) \o <<SQ, BSL, SQ, SQ>>,
                       SubstrFrom(input, where + 1),
                       Find(SubstrFrom(input, where + 1), SQ))

\* The while (true) loop of sq_quote.
sq_quote_loop(result, input, where) ==
    IF where = Len(input) - 1
    THEN result \o SubstrTo(input, Len(input) - 1) \o <<SQ, BSL, SQ>>
    ELSE IF where = npos
    THEN result \o input \o <<SQ>>
    ELSE sq_quote_loop(result \o SubstrTo(input, where) \o <<SQ, BSL, SQ, SQ>>,
                       SubstrFrom(input, where + 1),
                       Find(SubstrFrom(input, where + 1), SQ))

\* A plausible slip: a single quote in last position is encoded like any
\* other one and the closing quote is written after it.
sq_quote_uniform(input) ==
    LET RECURSIVE enc(_)
        enc(i) == IF i > Len(input) THEN <<>>
                  ELSE (IF input[i] = SQ THEN <<SQ, BSL, SQ, SQ>> ELSE <<input[i]>>)
                       \o enc(i + 1)
    IN <<SQ>> \o enc(1) \o <<SQ>>

sq_quote(input) ==
    LET where == Find(input, SQ)
    IN IF where = npos
       THEN <<SQ>> \o input \o <<SQ>>
       ELSE sq_quote_loop(<<SQ>>, input, where)

(***************************************************************************)
(* convert_argv_to_string                                                  *)
(***************************************************************************)
RECURSIVE argv_join(_, _, _)
argv_join(result, command, i) ==
    IF i > Len(command) THEN result
    ELSE argv_join(result \o <<SP>> \o sq_quote(command[i]), command, i + 1)

\* A plausible slip: the separator is left out.
convert_argv_to_string_nosep(command) ==
    IF command = <<>> THEN <<>>
    ELSE LET RECURSIVE cat(_, _)
             cat(result, i) ==
                 IF i > Len(command) THEN result
                 ELSE cat(result \o sq_quote(command[i]), i + 1)
         IN cat(sq_quote(command[1]), 2)

convert_argv_to_string(command) ==
    IF command = <<>> THEN <<>>
    ELSE argv_join(sq_quote(command[1]), command, 2)

(***************************************************************************)
(* Reference semantics: how a POSIX shell splits a command line into words *)
(* (XCU 2.2 Quoting, 2.6.5 Field Splitting). Inside single quotes every    *)
(* character is literal; outside, a backslash makes the next character     *)
(* literal, a space ends the word, and $ would start an expansion. A word  *)
(* exists as soon as a quote or a character of it was read, so '' is one   *)
(* empty word.                                                             *)
(***************************************************************************)
ShInit == [ok |-> TRUE, words |-> <<>>, cur |-> <<>>, has |-> FALSE, mode |-> "plain"]

ShStep(st, ch) ==
    IF ~st.ok THEN st
    ELSE IF st.mode = "squote"
    THEN IF ch = SQ THEN [st EXCEPT !.mode = "plain"]
         ELSE [st EXCEPT !.cur = st.cur \o <<ch>>]
    ELSE IF st.mode = "bslash"
    THEN [st EXCEPT !.cur = st.cur \o <<ch>>, !.has = TRUE, !.mode = "plain"]
    ELSE IF ch = SQ THEN [st EXCEPT !.mode = "squote", !.has = TRUE]
    ELSE IF ch = BSL THEN [st EXCEPT !.mode = "bslash"]
    ELSE IF ch = SP
    THEN IF st.has
         THEN [st EXCEPT !.words = st.words \o <<st.cur>>, !.cur = <<>>, !.has = FALSE]
         ELSE st
    ELSE IF ch \in {DOLLAR, DQ, BTICK} THEN [st EXCEPT !.ok = FALSE]
    ELSE [st EXCEPT !.cur = st.cur \o <<ch>>, !.has = TRUE]

RECURSIVE ShScan(_, _, _)
ShScan(st, line, i) ==
    IF i > Len(line) THEN st ELSE ShScan(ShStep(st, line[i]), line, i + 1)

\* The words of a command line, or ok = FALSE when the line is not made of
\* literal words only (an open quote, a dangling backslash, an expansion).
ShWords(line) ==
    LET st == ShScan(ShInit, line, 1)
    IN IF ~st.ok \/ st.mode # "plain" THEN [ok |-> FALSE, words |-> <<>>]
       ELSE [ok |-> TRUE,
             words |-> IF st.has THEN st.words \o <<st.cur>> ELSE st.words]

(***************************************************************************)
(* wrap_cmdstring_in_shell and wrap_command_in_wrapper                     *)
(***************************************************************************)
\* The string literals of the two functions.
BinSh == <<"/", "b", "i", "n", "/", "s", "h">>
DashC == <<"-", "c">>
\* wrap="$1"; shift; $wrap "$@"
WrapScript ==
    <<"w", "r", "a", "p", "=", DQ, DOLLAR, "1", DQ, ";", SP,
      "s", "h", "i", "f", "t", ";", SP,
      DOLLAR, "w", "r", "a", "p", SP, DQ, DOLLAR, "@", DQ>>

wrap_cmdstring_in_shell(cmdstring) == <<BinSh, DashC, cmdstring>>

\* A plausible slip: the placeholder that becomes $0 of the inner shell is
\* left out, so the wrapper takes its place and the first argument is lost
\* to "$1".
wrap_command_in_wrapper_noarg0(command, wrapper) ==
    <<BinSh, DashC, WrapScript, wrapper>> \o command

wrap_command_in_wrapper(command, wrapper) ==
    <<BinSh, DashC, WrapScript, BinSh, wrapper>> \o command

\* The wrappers handed to the assembler: one word and two words.
Wrappers == {<<"w">>, <<"w", SP, "-", "x">>}

(***************************************************************************)
(* Specification SpecQuote: the assembler applied to every bounded input.  *)
(***************************************************************************)
\* A component that takes no part in a specification stays idle.
QuoteIdle == q_argv = <<>> /\ q_wrapper = <<>> /\ q_out = <<>> /\ q_pc = "idle"
ExecIdle ==
    /\ e_key = <<>>
    /\ e_quirks = [extra_wine_escaping |-> FALSE, multiple_spaces_in_exec |-> FALSE]
    /\ e_diag = "idle"
    /\ e_conv = [called |-> FALSE, thrown |-> FALSE, argv |-> <<>>]

NoLookup == [found |-> FALSE, app |-> <<>>, args |-> <<>>]
NoLaunch == [kind |-> "none", app |-> <<>>, args |-> <<>>, command |-> <<>>]
MenuIdle ==
    /\ orig_mapping = <<>>
    /\ case_insensitive = FALSE
    /\ mapping = <<>>
    /\ hist_on = FALSE
    /\ hist = <<>>
    /\ lines = <<>>
    /\ query = <<>>
    /\ name_lookup = NoLookup
    /\ launched = NoLaunch
    /\ sessions = 0
    /\ no_exec = FALSE
    /\ exit_status = -1

\* The files a search root may hold: foo.desktop, bar.desktop and foo.txt,
\* named by their paths relative to the root.
DotDesktop == <<".", "d", "e", "s", "k", "t", "o", "p">>
FooDesktop == <<"f", "o", "o">> \o DotDesktop
BarDesktop == <<"b", "a", "r">> \o DotDesktop
FooTxt == <<"f", "o", "o", ".", "t", "x", "t">>
FileNames == {FooDesktop, BarDesktop, FooTxt}
\* The ranks of the search roots: search_path[0] and search_path[1].
Ranks == {0, 1}

\* What a root holds under a name: nothing, a file that does not parse, a
\* directory, or a desktop entry with its Name.
NoFile == [st |-> "absent", name |-> <<>>]
BadFile == [st |-> "bad", name |-> <<>>]
DirFile == [st |-> "dir", name |-> <<>>]
DesktopFile(name) == [st |-> "ok", name |-> name]

NoDisk == [f \in FileNames \X Ranks |-> NoFile]

\* AppManager holds the entries of the catalog and, per identity, the known
\* sources; both are records (id, rank, name) parsed from the file id of the
\* root of that rank.
EmptyCatalog == [apps |-> {}, sources |-> {}]

DaemonIdle ==
    /\ disk = NoDisk
    /\ catalog = EmptyCatalog
    /\ pending = <<>>
    /\ fifo = <<>>
    /\ d_pc = "idle"
    /\ d_status = -1
    /\ d_log = <<>>
    /\ menus = 0
    /\ changes = 0
    /\ bytes = 0

NoLaunchInput ==
    [command |-> <<>>, wrapper |-> <<>>, app_terminal |-> FALSE,
     is_custom |-> FALSE, i3 |-> FALSE]
NoInvocation == [via |-> "none", argv |-> <<>>]
LaunchIdle == l_in = NoLaunchInput /\ l_out = NoInvocation

QuoteInit ==
    /\ q_argv \in ArgvInputs \cup {<<s>> : s \in QuoteExamples}
    /\ q_wrapper \in Wrappers
    /\ q_out = <<>>
    /\ q_pc = "init"
    /\ ExecIdle
    /\ MenuIdle
    /\ DaemonIdle
    /\ LaunchIdle

\* sq_quote(q_argv[1]) is called.
DoSqQuote ==
    /\ q_pc = "init"
    /\ Len(q_argv) = 1
    /\ q_out' = sq_quote(q_argv[1])
    /\ q_pc' = "quoted"
    /\ UNCHANGED <<q_argv, q_wrapper, evars, mvars, dvars, lvars>>

\* convert_argv_to_string(q_argv) is called.
DoArgvToString ==
    /\ q_pc = "init"
    /\ q_out' = convert_argv_to_string(q_argv)
    /\ q_pc' = "joined"
    /\ UNCHANGED <<q_argv, q_wrapper, evars, mvars, dvars, lvars>>

\* wrap_command_in_wrapper(q_argv, q_wrapper) is called; the vector is taken
\* by reference to const.
DoWrap ==
    /\ q_pc = "init"
    /\ q_out' = wrap_command_in_wrapper(q_argv, q_wrapper)
    /\ q_pc' = "wrapped"
    /\ UNCHANGED <<q_argv, q_wrapper, evars, mvars, dvars, lvars>>

QuoteNext == DoSqQuote \/ DoArgvToString \/ DoWrap

SpecQuote == QuoteInit /\ [][QuoteNext]_vars

(***************************************************************************)
(* C1: for every byte string s, a POSIX shell reads sq_quote(s) as exactly *)
(* one word, and that word is s.                                           *)
(***************************************************************************)
C1_SqQuoteRoundTrip ==
    q_pc = "quoted" => ShWords(q_out) = [ok |-> TRUE, words |-> <<q_argv[1]>>]

\* sq_quote ran on a string that ends in a single quote and holds another one.
C1_Witness ==
    /\ q_pc = "quoted"
    /\ Len(q_argv[1]) >= 2
    /\ q_argv[1][Len(q_argv[1])] = SQ
    /\ q_argv[1][1] = SQ
    /\ ShWords(q_out).ok

(***************************************************************************)
(* C3: convert_argv_to_string(v) is the sq_quote of each element joined by *)
(* exactly one space, a POSIX shell splits it back into exactly v, and the *)
(* empty vector gives the empty string.                                    *)
(***************************************************************************)
RECURSIVE JoinWithSpace(_)
JoinWithSpace(parts) ==
    IF parts = <<>> THEN <<>>
    ELSE IF Len(parts) = 1 THEN parts[1]
    ELSE parts[1] \o <<SP>> \o JoinWithSpace(Tail(parts))

C3_ArgvRoundTrip ==
    q_pc = "joined" =>
        /\ q_out = JoinWithSpace([i \in 1..Len(q_argv) |-> sq_quote(q_argv[i])])
        /\ ShWords(q_out) = [ok |-> TRUE, words |-> q_argv]
        /\ (q_argv = <<>> => q_out = <<>>)

\* The vector holds an empty string and a string with a space or a quote.
C3_Witness ==
    /\ q_pc = "joined"
    /\ Len(q_argv) = 2
    /\ q_argv[1] = <<>>
    /\ \E i \in 1..Len(q_argv[2]) : q_argv[2][i] \in {SP, SQ}
    /\ ShWords(q_out).words = q_argv

(***************************************************************************)
(* validate_exec_key                                                       *)
(***************************************************************************)
\* The empty std::optional.
Nullopt == "nullopt"

\* A plausible slip: the case label of the grave accent is left out.
ValidEscapes_nograve == {DQ, DOLLAR, BSL}

\* A plausible slip: the escaped space, which the tokenizer takes under the
\* extra-wine quirk only, is accepted by the validator.
ValidEscapes_withspace == {DQ, BTICK, DOLLAR, BSL, SP}

\* A plausible slip: the case label of the backslash is left out.
ValidEscapes_nobackslash == {DQ, BTICK, DOLLAR}

\* The characters the switch of validate_exec_key accepts after a backslash
\* inside a double-quoted section.
ValidEscapes == {DQ, BTICK, DOLLAR, BSL}

\* The for loop of validate_exec_key; i is the 0-based loop index. The value
\* is Nullopt or the diagnostic returned.
RECURSIVE validate_loop(_, _, _)
validate_loop(exec_key, i, in_quotes) ==
    IF i >= Len(exec_key)
    THEN IF in_quotes THEN "missing the end quote" ELSE Nullopt
    ELSE LET ch == exec_key[i + 1]
         IN IF in_quotes
            THEN IF ch = BSL
                 THEN IF i = Len(exec_key) - 1
                      THEN "escape character at end of line"
                      ELSE IF exec_key[i + 2] \in ValidEscapes
                      THEN validate_loop(exec_key, i + 2, in_quotes)
                      ELSE "invalid escape sequence"
                 ELSE IF ch = DQ
                 THEN validate_loop(exec_key, i + 1, FALSE)
                 ELSE validate_loop(exec_key, i + 1, in_quotes)
            ELSE IF ch = DQ
                 THEN validate_loop(exec_key, i + 1, TRUE)
                 ELSE IF ch = BSL
                 THEN "unquoted escape sequence"
                 ELSE validate_loop(exec_key, i + 1, in_quotes)

validate_exec_key(exec_key) == validate_loop(exec_key, 0, FALSE)

(***************************************************************************)
(* convert_exec_to_command                                                 *)
(***************************************************************************)
\* The locals of convert_exec_to_command before the loop; thrown records that
\* invalid_Exec left the function. The two warning flags only gate log lines.
ExecLocals ==
    [result |-> <<>>, curr |-> <<>>, in_quotes |-> FALSE, escaping |-> FALSE,
     thrown |-> FALSE]

\* One iteration of the for loop over the characters of the Exec key.
ExecStep(st, ch, quirks) ==
    IF st.thrown THEN st
    ELSE IF st.escaping
    THEN IF ch \in {DQ, BTICK, DOLLAR, BSL}
         THEN [st EXCEPT !.curr = st.curr \o <<ch>>, !.escaping = FALSE]
         ELSE IF ch = SP
         THEN IF quirks.extra_wine_escaping
              THEN [st EXCEPT !.curr = st.curr \o <<SP>>, !.escaping = FALSE]
              ELSE [st EXCEPT !.thrown = TRUE]
         \* the switch has no default label: any other character falls out of it
         ELSE [st EXCEPT !.escaping = FALSE]
    ELSE IF st.in_quotes
    THEN IF ch = DQ THEN [st EXCEPT !.in_quotes = FALSE]
         ELSE IF ch = BSL THEN [st EXCEPT !.escaping = TRUE]
         ELSE [st EXCEPT !.curr = st.curr \o <<ch>>]
    ELSE IF ch = DQ THEN [st EXCEPT !.in_quotes = TRUE]
         ELSE IF ch = SP
         THEN IF quirks.multiple_spaces_in_exec /\ st.curr = <<>>
              THEN st
              ELSE [st EXCEPT !.result = Append(st.result, st.curr), !.curr = <<>>]
         ELSE IF ch = BSL
         THEN IF quirks.extra_wine_escaping
              THEN [st EXCEPT !.escaping = TRUE]
              ELSE [st EXCEPT !.thrown = TRUE]
         ELSE [st EXCEPT !.curr = st.curr \o <<ch>>]

\* The locals after the first n characters of the Exec key.
RECURSIVE ExecLoop(_, _, _)
ExecLoop(exec_key, quirks, n) ==
    IF n = 0 THEN ExecLocals
    ELSE ExecStep(ExecLoop(exec_key, quirks, n - 1), exec_key[n], quirks)

\* The outcome of the call: invalid_Exec thrown, or the vector returned.
convert_exec_to_command(exec_key, quirks) ==
    LET st == ExecLoop(exec_key, quirks, Len(exec_key))
    IN IF st.thrown THEN [thrown |-> TRUE, argv |-> <<>>]
       ELSE [thrown |-> FALSE,
             argv |-> IF st.curr # <<>> THEN Append(st.result, st.curr) ELSE st.result]

(***************************************************************************)
(* Specification SpecExec: the validator and the tokenizer applied to      *)
(* every bounded Exec key under every quirk setting.                       *)
(***************************************************************************)
ExecAlphabet == {"a", SP, DQ, BSL, DOLLAR, BTICK}

\* A longer Exec key: wine start /unix "C:\\Program Files\\App\\app.exe", the
\* path between double quotes and each backslash of the path written twice.
WineExec ==
    <<"w", "i", "n", "e", SP, "s", "t", "a", "r", "t", SP, "/", "u", "n",
      "i", "x", SP, DQ, "C", ":", BSL, BSL, "P", "r", "o", "g", "r", "a",
      "m", SP, "F", "i", "l", "e", "s", BSL, BSL, "A", "p", "p", BSL, BSL,
      "a", "p", "p", ".", "e", "x", "e", DQ>>

Unset == "unset"

ExecInit ==
    /\ e_key \in StrsUpTo(ExecAlphabet, MaxExecLen) \cup {WineExec}
    /\ e_quirks \in [extra_wine_escaping : BOOLEAN, multiple_spaces_in_exec : BOOLEAN]
    /\ e_diag = Unset
    /\ e_conv = [called |-> FALSE, thrown |-> FALSE, argv |-> <<>>]
    /\ QuoteIdle
    /\ MenuIdle
    /\ DaemonIdle
    /\ LaunchIdle

\* validate_exec_key(e_key) is called.
DoValidate ==
    /\ e_diag = Unset
    /\ e_diag' = validate_exec_key(e_key)
    /\ UNCHANGED <<e_key, e_quirks, e_conv, qvars, mvars, dvars, lvars>>

\* convert_exec_to_command(e_key, e_quirks) is called.
DoConvert ==
    /\ ~e_conv.called
    /\ e_conv' = LET r == convert_exec_to_command(e_key, e_quirks)
                 IN [called |-> TRUE, thrown |-> r.thrown, argv |-> r.argv]
    /\ UNCHANGED <<e_key, e_quirks, e_diag, qvars, mvars, dvars, lvars>>

ExecNext == DoValidate \/ DoConvert

SpecExec == ExecInit /\ [][ExecNext]_vars

Validated == e_diag \notin {Unset, "idle"}
Converted == e_conv.called
NoQuirks == ~e_quirks.extra_wine_escaping /\ ~e_quirks.multiple_spaces_in_exec

(***************************************************************************)
(* C2: an Exec key for which validate_exec_key returns no diagnostic is    *)
(* tokenized by convert_exec_to_command, both quirks disabled, without     *)
(* invalid_Exec being raised.                                              *)
(***************************************************************************)
C2_ValidatedConverts ==
    (Validated /\ Converted /\ NoQuirks /\ e_diag = Nullopt) => ~e_conv.thrown

\* A validated key with an escape inside a quoted section was tokenized.
C2_Witness ==
    /\ Validated /\ Converted /\ NoQuirks
    /\ e_diag = Nullopt
    /\ \E i \in 1..Len(e_key) : e_key[i] = BSL
    /\ ~e_conv.thrown
    /\ Len(e_conv.argv) = 1

(***************************************************************************)
(* C4: validate_exec_key returns a diagnostic exactly when, scanning with  *)
(* the states Outside and InDoubleQuote, there is a backslash while        *)
(* Outside, or a backslash while InDoubleQuote that is the last character  *)
(* or is followed by none of double quote, grave accent, dollar and        *)
(* backslash, or the key ends while InDoubleQuote; otherwise it returns    *)
(* the empty optional.                                                     *)
(***************************************************************************)
\* The scanner's state in front of character i (1-based): "out", "in", or
\* "lit" when character i is the one a backslash inside quotes escapes.
RECURSIVE ScanMode(_, _)
ScanMode(e, i) ==
    IF i = 1 THEN "out"
    ELSE LET m == ScanMode(e, i - 1)
             c == e[i - 1]
         IN IF m = "lit" THEN "in"
            ELSE IF m = "out" THEN (IF c = DQ THEN "in" ELSE "out")
            ELSE IF c = BSL THEN "lit"
            ELSE IF c = DQ THEN "out"
            ELSE "in"

ExecKeyInvalid(e) ==
    \/ \E i \in 1..Len(e) : ScanMode(e, i) = "out" /\ e[i] = BSL
    \/ \E i \in 1..Len(e) :
          /\ ScanMode(e, i) = "in"
          /\ e[i] = BSL
          /\ (i = Len(e) \/ e[i + 1] \notin {DQ, BTICK, DOLLAR, BSL})
    \/ ScanMode(e, Len(e) + 1) = "in"

C4_ValidateCharacterised ==
    Validated => ((e_diag # Nullopt) <=> ExecKeyInvalid(e_key))

\* The validator rejected a backslash that ends the key inside a quoted
\* section, after an escape it accepted.
C4_Witness ==
    /\ Validated
    /\ e_diag = "escape character at end of line"
    /\ Len(e_key) = 4
    /\ e_key[1] = DQ /\ e_key[2] = BSL /\ e_key[3] = BTICK /\ e_key[4] = BSL
    /\ ExecKeyInvalid(e_key)

(***************************************************************************)
(* C5: under every quirk setting, when the tokenizer reaches the end of    *)
(* the Exec key inside a double-quoted section or in the Escaping state,   *)
(* convert_exec_to_command raises invalid_Exec.                            *)
(***************************************************************************)
C5_EndInsideQuoteOrEscapeThrows ==
    Converted =>
        LET st == ExecLoop(e_key, e_quirks, Len(e_key))
        IN (~st.thrown /\ (st.in_quotes \/ st.escaping)) => e_conv.thrown

(***************************************************************************)
(* C6: in the Escaping state a character that is none of double quote,     *)
(* grave accent, dollar and backslash (and is not a space under the        *)
(* extra-wine quirk) makes convert_exec_to_command raise invalid_Exec.     *)
(***************************************************************************)
C6_BadEscapeThrows ==
    Converted =>
        \A n \in 0..(Len(e_key) - 1) :
            LET st == ExecLoop(e_key, e_quirks, n)
                ch == e_key[n + 1]
            IN (/\ ~st.thrown
                /\ st.escaping
                /\ ch \notin {DQ, BTICK, DOLLAR, BSL}
                /\ ~(ch = SP /\ e_quirks.extra_wine_escaping))
               => e_conv.thrown

(***************************************************************************)
(* C7: under every quirk setting the vector convert_exec_to_command        *)
(* returns holds no empty token.                                           *)
(***************************************************************************)
C7_NoEmptyToken ==
    (Converted /\ ~e_conv.thrown) =>
        \A i \in 1..Len(e_conv.argv) : e_conv.argv[i] # <<>>

(***************************************************************************)
(* DynamicCompare: the comparator of name_map, case-sensitive or           *)
(* case-insensitive, ordering strings by their (folded) bytes.             *)
(***************************************************************************)
\* The byte value of a character.
Code(c) ==
    CASE c = " " -> 32
      [] c = "A" -> 65 [] c = "B" -> 66 [] c = "C" -> 67 [] c = "Z" -> 90
      [] c = "a" -> 97 [] c = "b" -> 98 [] c = "c" -> 99 [] c = "z" -> 122

\* tolower.
ToLower(c) ==
    CASE c = "A" -> "a" [] c = "B" -> "b" [] c = "C" -> "c" [] c = "Z" -> "z"
      [] OTHER -> c

Fold(ci, c) == IF ci THEN ToLower(c) ELSE c

\* DynamicCompare(ci)(a, b): a orders before b.
RECURSIVE DynamicCompare(_, _, _)
DynamicCompare(ci, a, b) ==
    IF b = <<>> THEN FALSE
    ELSE IF a = <<>> THEN TRUE
    ELSE LET x == Code(Fold(ci, a[1]))
             y == Code(Fold(ci, b[1]))
         IN IF x < y THEN TRUE
            ELSE IF y < x THEN FALSE
            ELSE DynamicCompare(ci, Tail(a), Tail(b))

\* The equivalence std::map and std::set derive from their comparator.
Equivalent(ci, a, b) == ~DynamicCompare(ci, a, b) /\ ~DynamicCompare(ci, b, a)

(***************************************************************************)
(* name_map: a std::map kept as the sequence of its (key, app) entries in  *)
(* comparator order. An Application pointer is the application's name in   *)
(* the catalog.                                                            *)
(***************************************************************************)
\* map.find(q): the index of the entry equivalent to q, or 0 for map.end().
MapFind(map, ci, q) ==
    IF \E i \in 1..Len(map) : Equivalent(ci, map[i].key, q)
    THEN CHOOSE i \in 1..Len(map) : Equivalent(ci, map[i].key, q)
    ELSE 0

\* map.try_emplace(key, ptr): nothing when an equivalent key is present.
TryEmplace(map, ci, key, ptr) ==
    IF MapFind(map, ci, key) # 0 THEN map
    ELSE LET pos == Cardinality({i \in 1..Len(map) : DynamicCompare(ci, map[i].key, key)})
         IN SubSeq(map, 1, pos) \o <<[key |-> key, app |-> ptr]>>
                \o SubSeq(map, pos + 1, Len(map))

\* appformatter_default: the display key is the name.
format(key, app) == key

\* format_name_app_mapping: try_emplace of every entry of orig in its order.
RECURSIVE format_name_app_mapping(_, _)
format_name_app_mapping(orig, ci) ==
    IF orig = <<>> THEN <<>>
    ELSE LET n == Len(orig)
         IN TryEmplace(format_name_app_mapping(SubSeq(orig, 1, n - 1), ci), ci,
                       format(orig[n], orig[n]), orig[n])

(***************************************************************************)
(* do_dmenu: the lines written to the menu.                                *)
(***************************************************************************)
\* The loop over histm->view(): names is desktop_file_names, out the lines
\* written so far.
RECURSIVE HistoryPass(_, _, _, _, _)

\* A plausible slip: every name of the history is written, whether it
\* erased a key or not.
RECURSIVE HistoryPass_all(_, _, _, _, _)
HistoryPass_all(names, out, view, i, ci) ==
    IF i > Len(view) THEN [names |-> names, out |-> out]
    ELSE LET name == view[i].name
             hit == {j \in 1..Len(names) : Equivalent(ci, names[j], name)}
             left == IF hit = {} THEN names
                     ELSE LET j == CHOOSE j \in hit : TRUE
                          IN SubSeq(names, 1, j - 1) \o SubSeq(names, j + 1, Len(names))
         IN HistoryPass_all(left, Append(out, name), view, i + 1, ci)

HistoryPass(names, out, view, i, ci) ==
    IF i > Len(view) THEN [names |-> names, out |-> out]
    ELSE LET name == view[i].name
             hit == {j \in 1..Len(names) : Equivalent(ci, names[j], name)}
         IN IF hit # {}
            THEN LET j == CHOOSE j \in hit : TRUE
                 IN HistoryPass(SubSeq(names, 1, j - 1) \o SubSeq(names, j + 1, Len(names)),
                                Append(out, name), view, i + 1, ci)
            ELSE HistoryPass(names, out, view, i + 1, ci)

\* The lines do_dmenu writes: with a history, its names that erase a key, then
\* the keys left; without, the keys.
\* A plausible slip: the test for an empty choice is left out.
do_dmenu_query_unchecked(choice) == [has_value |-> TRUE, value |-> choice]

\* What do_dmenu returns once read_choice has given the choice: the empty
\* optional for an empty choice (an empty line or end of file).
do_dmenu_query(choice) ==
    IF choice = <<>> THEN [has_value |-> FALSE, value |-> <<>>]
    ELSE [has_value |-> TRUE, value |-> choice]

do_dmenu_lines(map, ci, histm, view) ==
    LET keys == [i \in 1..Len(map) |-> map[i].key]
    IN IF histm
       THEN LET r == HistoryPass(keys, <<>>, view, 1, ci)
            IN r.out \o r.names
       ELSE keys

(***************************************************************************)
(* lookup_name                                                             *)
(***************************************************************************)
\* startswith(s, prefix).
startswith(str, prefix) ==
    /\ Len(prefix) <= Len(str)
    /\ SubSeq(str, 1, Len(prefix)) = prefix

\* A plausible slip: the exact match compares bytes instead of using the
\* comparator of the map.
lookup_name_bytes(q, map, ci) ==
    IF \E i \in 1..Len(map) : map[i].key = q
    THEN [found |-> TRUE,
          app |-> map[CHOOSE i \in 1..Len(map) : map[i].key = q].app,
          args |-> <<>>]
    ELSE LET pre == {i \in 1..Len(map) : startswith(q, map[i].key)}
         IN IF pre # {}
            THEN LET i == CHOOSE i \in pre : \A j \in pre : i <= j
                 IN [found |-> TRUE, app |-> map[i].app,
                     args |-> SubstrFrom(q, Len(map[i].key))]
            ELSE [found |-> FALSE, app |-> <<>>, args |-> <<>>]

\* A plausible slip: the loop keeps the last key that is a prefix of the
\* query, the longest of nested keys, instead of returning at the first.
lookup_name_last(q, map, ci) ==
    LET find == MapFind(map, ci, q)
    IN IF find # 0
       THEN [found |-> TRUE, app |-> map[find].app, args |-> <<>>]
       ELSE LET pre == {i \in 1..Len(map) : startswith(q, map[i].key)}
            IN IF pre # {}
               THEN LET i == CHOOSE i \in pre : \A j \in pre : i >= j
                    IN [found |-> TRUE, app |-> map[i].app,
                        args |-> SubstrFrom(q, Len(map[i].key))]
               ELSE [found |-> FALSE, app |-> <<>>, args |-> <<>>]

lookup_name(q, map, ci) ==
    LET find == MapFind(map, ci, q)
    IN IF find # 0
       THEN [found |-> TRUE, app |-> map[find].app, args |-> <<>>]
       ELSE LET pre == {i \in 1..Len(map) : startswith(q, map[i].key)}
            IN IF pre # {}
               THEN LET i == CHOOSE i \in pre : \A j \in pre : i <= j
                    IN [found |-> TRUE, app |-> map[i].app,
                        args |-> SubstrFrom(q, Len(map[i].key))]
               ELSE [found |-> FALSE, app |-> <<>>, args |-> <<>>]

(***************************************************************************)
(* HistoryManager                                                          *)
(***************************************************************************)
\* increment(name): the entry's count plus one, or a new entry of count 1,
\* placed in front of the entries whose count is not larger.
\* A plausible slip: the entry is placed behind the entries of equal count.
HistoryIncrement_behind(view, name) ==
    LET at == {i \in 1..Len(view) : view[i].name = name}
        i == IF at = {} THEN 0 ELSE CHOOSE i \in at : \A j \in at : i <= j
        count == IF i = 0 THEN 1 ELSE view[i].count + 1
        rest == IF i = 0 THEN view
                ELSE SubSeq(view, 1, i - 1) \o SubSeq(view, i + 1, Len(view))
        pos == Cardinality({j \in 1..Len(rest) : rest[j].count >= count})
    IN SubSeq(rest, 1, pos) \o <<[count |-> count, name |-> name]>>
           \o SubSeq(rest, pos + 1, Len(rest))

HistoryIncrement(view, name) ==
    LET at == {i \in 1..Len(view) : view[i].name = name}
        i == IF at = {} THEN 0 ELSE CHOOSE i \in at : \A j \in at : i <= j
        count == IF i = 0 THEN 1 ELSE view[i].count + 1
        rest == IF i = 0 THEN view
                ELSE SubSeq(view, 1, i - 1) \o SubSeq(view, i + 1, Len(view))
        pos == Cardinality({j \in 1..Len(rest) : rest[j].count > count})
    IN SubSeq(rest, 1, pos) \o <<[count |-> count, name |-> name]>>
           \o SubSeq(rest, pos + 1, Len(rest))

\* A plausible slip: the history is incremented before --no-exec is tested.
session_history_early(noexec, histm, is_custom, view, name) ==
    IF histm /\ ~is_custom THEN HistoryIncrement(view, name) ELSE view

\* The history after the lookup of a session: under --no-exec the session
\* ends before the increment; otherwise a desktop entry increments the
\* history with the choice when a HistoryManager exists.
session_history(noexec, histm, is_custom, view, name) ==
    IF noexec THEN view
    ELSE IF histm /\ ~is_custom THEN HistoryIncrement(view, name)
    ELSE view

(***************************************************************************)
(* Specification Spec: successive one-shot runs, --no-exec off, over the    *)
(* same catalog and history, for every bounded catalog, comparator         *)
(* setting, history file and choice.                                       *)
(***************************************************************************)
\* The names applications are drawn from.
NameUniverse == {<<"A">>, <<"a">>, <<"B">>, <<"C">>}

\* The catalogs: the names of at most MaxApps applications, in the order
\* view_name_app_mapping() iterates them.
Catalogs ==
    {o \in UNION {[1..k -> NameUniverse] : k \in 0..MaxApps} :
        \A i, j \in 1..Len(o) : i # j => o[i] # o[j]}

\* The history files found at startup: an empty one, the one of scenario S6,
\* and one that names an application twice and an application that is gone.
HistoryFiles ==
    {<<>>,
     <<[count |-> 3, name |-> <<"B">>], [count |-> 1, name |-> <<"A">>]>>,
     <<[count |-> 2, name |-> <<"B">>], [count |-> 1, name |-> <<"Z">>],
       [count |-> 1, name |-> <<"B">>]>>}

\* What the user may type or pick: nothing, a name, a name with arguments, a
\* name with a letter glued to it, an unknown word.
Choices ==
    NameUniverse \cup {<<>>, <<"A", " ", "B">>, <<"A", "B">>, <<"Z">>}

Init ==
    /\ orig_mapping \in Catalogs
    /\ case_insensitive \in BOOLEAN
    /\ mapping = format_name_app_mapping(orig_mapping, case_insensitive)
    /\ hist_on \in BOOLEAN
    \* Earlier runs wrote the file: a name in it is a display key of the
    \* mapping as shown, or the name of an application that is gone.
    /\ hist \in IF hist_on
               THEN {h \in HistoryFiles :
                        \A i \in 1..Len(h) :
                            \/ \E j \in 1..Len(mapping) : mapping[j].key = h[i].name
                            \/ MapFind(mapping, case_insensitive, h[i].name) = 0}
               ELSE {<<>>}
    /\ lines = <<>>
    /\ query = <<>>
    /\ name_lookup = NoLookup
    /\ launched = NoLaunch
    /\ sessions = 0
    /\ no_exec = FALSE
    /\ exit_status = -1
    /\ QuoteIdle
    /\ ExecIdle
    /\ DaemonIdle
    /\ LaunchIdle

\* One menu session of one-shot mode: do_dmenu writes the lines and reads the
\* choice; an empty choice ends the run with exit(0); otherwise lookup_name
\* resolves it; under --no-exec the command is printed and the run ends with
\* exit(0); otherwise the history is incremented for a desktop entry and the
\* command is handed to execute_app, which replaces the process.
MenuSession(choice) ==
    /\ d_pc = "idle"
    /\ sessions < MaxSessions
    /\ sessions' = sessions + 1
    /\ lines' = do_dmenu_lines(mapping, case_insensitive, hist_on, hist)
    /\ query' = choice
    /\ IF ~do_dmenu_query(choice).has_value
       THEN /\ name_lookup' = NoLookup
            /\ launched' = NoLaunch
            /\ exit_status' = 0
            /\ UNCHANGED hist
       ELSE LET r == lookup_name(choice, mapping, case_insensitive)
                is_custom == ~r.found
            IN /\ name_lookup' = r
               /\ hist' = session_history(no_exec, hist_on, is_custom, hist, choice)
               /\ IF no_exec
                  \* the command is printed to stderr and the run exits
                  THEN /\ launched' = NoLaunch
                       /\ exit_status' = 0
                  ELSE /\ launched' = IF is_custom
                                      THEN [kind |-> "custom", app |-> <<>>,
                                            args |-> <<>>, command |-> choice]
                                      ELSE [kind |-> "desktop", app |-> r.app,
                                            args |-> r.args, command |-> <<>>]
                       /\ exit_status' = -1
    /\ UNCHANGED <<orig_mapping, case_insensitive, mapping, hist_on, no_exec,
                   qvars, evars, dvars, lvars>>

Next == \E choice \in Choices : MenuSession(choice)

Spec == Init /\ [][Next]_vars

\* A menu session ran and a choice was read in it.
Chose == sessions > 0 /\ query # <<>>

\* Equality of two strings under the active comparator, character by character.
SameKey(ci, a, b) ==
    /\ Len(a) = Len(b)
    /\ \A i \in 1..Len(a) : Fold(ci, a[i]) = Fold(ci, b[i])

MappingKeys == {mapping[i].key : i \in 1..Len(mapping)}

(***************************************************************************)
(* C8: when the choice equals no key, lookup_name returns an application   *)
(* only for a key k such that the choice is k, one space, and more; the    *)
(* args returned are the choice without k and without that space.          *)
(***************************************************************************)
C8_PrefixThenSpace ==
    (/\ Chose
     /\ \A k \in MappingKeys : ~SameKey(case_insensitive, k, query)
     /\ name_lookup.found)
    => \E i \in 1..Len(mapping) :
          LET k == mapping[i].key
          IN /\ name_lookup.app = mapping[i].app
             /\ Len(query) > Len(k)
             /\ SubSeq(query, 1, Len(k)) = k
             /\ query[Len(k) + 1] = SP
             /\ name_lookup.args = SubSeq(query, Len(k) + 2, Len(query))

(***************************************************************************)
(* C9: a choice equal to a key under the active comparator resolves to     *)
(* that key's application with empty args; under the case-insensitive      *)
(* comparator the choice "a" resolves to the key "A", and under the        *)
(* case-sensitive comparator, with no key "a", it resolves to no           *)
(* application and is run as a custom command.                             *)
(***************************************************************************)
C9_ExactMatch ==
    Chose =>
        /\ \A i \in 1..Len(mapping) :
              SameKey(case_insensitive, mapping[i].key, query)
              => name_lookup = [found |-> TRUE, app |-> mapping[i].app, args |-> <<>>]
        /\ (case_insensitive /\ query = <<"a">> /\ <<"A">> \in MappingKeys)
              => name_lookup = [found |-> TRUE, app |-> <<"A">>, args |-> <<>>]
        /\ (~case_insensitive /\ query = <<"a">> /\ <<"a">> \notin MappingKeys)
              => /\ ~name_lookup.found
                 /\ launched.kind = "custom"
                 /\ launched.command = query

\* Under the case-insensitive comparator the choice "a" resolved to the key "A".
C9_Witness ==
    /\ Chose
    /\ case_insensitive
    /\ query = <<"a">>
    /\ <<"A">> \in MappingKeys
    /\ name_lookup.found
    /\ name_lookup.app = <<"A">>

(***************************************************************************)
(* C10: in a menu session with history the lines written are the history   *)
(* names present in the mapping, in history order, then the remaining      *)
(* mapping keys in comparator order; every mapping key is written exactly  *)
(* once and no line is written twice.                                      *)
(***************************************************************************)
\* The names of view that some key matches, first occurrences only.
RECURSIVE HistoryNamesShown(_, _, _)
HistoryNamesShown(view, i, ci) ==
    IF i = 0 THEN <<>>
    ELSE LET before == HistoryNamesShown(view, i - 1, ci)
             name == view[i].name
         IN IF /\ \E k \in MappingKeys : SameKey(ci, k, name)
               /\ \A j \in 1..Len(before) : ~SameKey(ci, before[j], name)
            THEN Append(before, name)
            ELSE before

Occurrences(seq, x) == Cardinality({i \in 1..Len(seq) : seq[i] = x})

HistoryThenKeysOnce(view, written) ==
    LET ci == case_insensitive
        shown == HistoryNamesShown(view, Len(view), ci)
        rest == SelectSeq([i \in 1..Len(mapping) |-> mapping[i].key],
                          LAMBDA k : \A j \in 1..Len(shown) : ~SameKey(ci, shown[j], k))
    IN /\ written = shown \o rest
       /\ \A k \in MappingKeys : Occurrences(written, k) = 1
       /\ \A i, j \in 1..Len(written) : i # j => written[i] # written[j]

C10_HistoryFirstEachKeyOnce ==
    [][(sessions' = sessions + 1 /\ hist_on) => HistoryThenKeysOnce(hist, lines')]_vars

(***************************************************************************)
(* collect_files and the catalog of AppManager.                            *)
(***************************************************************************)
\* endswith(str, suffix).
endswith(str, suffix) ==
    /\ Len(suffix) <= Len(str)
    /\ SubSeq(str, Len(str) - Len(suffix) + 1, Len(str)) = suffix

\* A plausible slip: the test of the name's suffix is left out.
collect_files_anyname(search_path, d) ==
    [rank \in search_path |-> {f \in FileNames : d[<<f, rank>>].st \notin {"absent", "dir"}}]

\* collect_files: per search root, the paths FileFinder yields that are no
\* directory and end in ".desktop".
collect_files(search_path, d) ==
    [rank \in search_path |->
        {f \in FileNames :
            /\ d[<<f, rank>>].st # "absent"
            /\ ~(d[<<f, rank>>].st = "dir" \/ ~endswith(f, DotDesktop))}]

EntriesOf(cat, id) == {e \in cat.apps : e.id = id}

\* The source of rank `rank` of identity id becomes the record app.
Known(cat, app) ==
    {e \in cat.sources : ~(e.id = app.id /\ e.rank = app.rank)} \cup {app}

\* The initial ingest installs the file id of the root of rank `rank`: a file
\* that does not parse is skipped; the record is discarded when the identity
\* exists with a strictly lower-ranked root.
IngestFile(cat, d, id, rank) ==
    LET file == d[<<id, rank>>]
        app == [id |-> id, rank |-> rank, name |-> file.name]
    IN IF file.st # "ok" THEN cat
       ELSE IF \E e \in EntriesOf(cat, id) : e.rank < rank
       THEN [apps |-> cat.apps, sources |-> Known(cat, app)]
       ELSE [apps |-> (cat.apps \ EntriesOf(cat, id)) \cup {app},
             sources |-> Known(cat, app)]

\* The files of one root, in any order: the identities of one root differ.
RECURSIVE IngestRoot(_, _, _, _)
IngestRoot(cat, d, files, rank) ==
    IF files = {} THEN cat
    ELSE LET f == CHOOSE f \in files : TRUE
         IN IngestRoot(IngestFile(cat, d, f, rank), d, files \ {f}, rank)

\* AppManager(desktop_file_list): the roots in ascending rank.
RECURSIVE IngestFrom(_, _, _, _)
IngestFrom(cat, d, list, rank) ==
    IF rank \notin DOMAIN list THEN cat
    ELSE IngestFrom(IngestRoot(cat, d, list[rank], rank), d, list, rank + 1)

AppManagerInit(list, d) == IngestFrom(EmptyCatalog, d, list, 0)

\* view_name_app_mapping(): the names of the entries, one per name, in the
\* order of the entries' identities and ranks.
RECURSIVE NamesInOrder(_, _)
NamesInOrder(apps, acc) ==
    IF apps = {} THEN acc
    ELSE LET e == CHOOSE e \in apps :
                      \A o \in apps :
                          \/ e.id = o.id /\ e.rank <= o.rank
                          \/ e.id # o.id /\ (e.id = FooDesktop \/ o.id = FooTxt)
         IN NamesInOrder(apps \ {e},
                         IF \E i \in 1..Len(acc) : acc[i] = e.name
                         THEN acc ELSE Append(acc, e.name))

view_name_app_mapping(cat) == NamesInOrder(cat.apps, <<>>)

(***************************************************************************)
(* Specification SpecIngest: the catalog main builds at startup from every *)
(* bounded set of files under two search roots.                            *)
(***************************************************************************)
\* What a root may hold under each file name.
FilesNamed(f) ==
    IF f = FooDesktop
    THEN {NoFile, BadFile, DirFile, DesktopFile(<<"A">>), DesktopFile(<<"B">>)}
    ELSE IF f = BarDesktop
    THEN {NoFile, DesktopFile(<<"a">>), DesktopFile(<<"B">>)}
    ELSE {NoFile, DesktopFile(<<"C">>)}

Disks == {d \in [FileNames \X Ranks -> UNION {FilesNamed(f) : f \in FileNames}] :
             \A f \in FileNames, r \in Ranks : d[<<f, r>>] \in FilesNamed(f)}

IngestInit ==
    /\ disk \in Disks
    /\ catalog = EmptyCatalog
    /\ case_insensitive \in BOOLEAN
    /\ orig_mapping = <<>>
    /\ mapping = <<>>
    /\ hist_on = FALSE
    /\ hist = <<>>
    /\ lines = <<>>
    /\ query = <<>>
    /\ name_lookup = NoLookup
    /\ launched = NoLaunch
    /\ sessions = 0
    /\ no_exec = FALSE
    /\ exit_status = -1
    /\ pending = <<>>
    /\ fifo = <<>>
    /\ d_pc = "main"
    /\ d_status = -1
    /\ d_log = <<>>
    /\ menus = 0
    /\ changes = 0
    /\ bytes = 0
    /\ QuoteIdle
    /\ ExecIdle
    /\ LaunchIdle

\* main up to the call of do_wait_on: the files are collected, AppManager
\* ingests them and the name mapping is built.
Startup ==
    /\ d_pc = "main"
    /\ LET appm == AppManagerInit(collect_files(Ranks, disk), disk)
       IN /\ catalog' = appm
          /\ orig_mapping' = view_name_app_mapping(appm)
          /\ mapping' = format_name_app_mapping(view_name_app_mapping(appm),
                                                case_insensitive)
    /\ d_pc' = "poll"
    /\ UNCHANGED <<case_insensitive, hist_on, hist, lines, query, name_lookup,
                   launched, sessions, no_exec, exit_status, disk, pending, fifo, d_status, d_log,
                   menus, changes, bytes, qvars, evars, lvars>>

SpecIngest == IngestInit /\ [][Startup]_vars

\* The ranks of the roots that hold a desktop file id that parses.
ParseableRanks(d, id) == {r \in Ranks : d[<<id, r>>].st = "ok"}
MinRank(rs) == CHOOSE r \in rs : \A o \in rs : r <= o

(***************************************************************************)
(* C15: the catalog built by the initial ingest holds exactly one entry    *)
(* for every identity of which some root holds a desktop file that parses, *)
(* no other entry, and the entry comes from the root of minimum rank among *)
(* those roots.                                                            *)
(***************************************************************************)
C15_IngestMinRank ==
    (d_pc = "poll" /\ changes = 0) =>
        /\ \A e, o \in catalog.apps : e.id = o.id => e = o
        /\ {e.id : e \in catalog.apps}
              = {id \in FileNames : endswith(id, DotDesktop) /\ ParseableRanks(disk, id) # {}}
        /\ \A e \in catalog.apps :
              /\ e.rank = MinRank(ParseableRanks(disk, e.id))
              /\ e.name = disk[<<e.id, e.rank>>].name

\* foo.desktop parses in both roots with different names and the entry is
\* the one of rank 0, while bar.desktop parses only in the root of rank 1.
C15_Witness ==
    /\ d_pc = "poll"
    /\ changes = 0
    /\ disk[<<FooDesktop, 0>>] = DesktopFile(<<"A">>)
    /\ disk[<<FooDesktop, 1>>] = DesktopFile(<<"B">>)
    /\ disk[<<BarDesktop, 0>>] = NoFile
    /\ disk[<<BarDesktop, 1>>] = DesktopFile(<<"a">>)
    /\ catalog.apps = {[id |-> FooDesktop, rank |-> 0, name |-> <<"A">>],
                       [id |-> BarDesktop, rank |-> 1, name |-> <<"a">>]}

(***************************************************************************)
(* The live updates of AppManager.                                         *)
(***************************************************************************)
\* add(id, root, rank): the file is parsed again; the entry is replaced or
\* inserted when the entry of id comes from a root of strictly higher rank or
\* when there is none, and left alone otherwise.
add(cat, d, id, rank) ==
    LET file == d[<<id, rank>>]
        app == [id |-> id, rank |-> rank, name |-> file.name]
    IN IF file.st # "ok" THEN cat
       ELSE IF EntriesOf(cat, id) = {} \/ \E e \in EntriesOf(cat, id) : e.rank > rank
       THEN [apps |-> (cat.apps \ EntriesOf(cat, id)) \cup {app},
             sources |-> Known(cat, app)]
       ELSE [apps |-> cat.apps, sources |-> Known(cat, app)]

\* remove(id, root): the entry is removed only when it comes from root, and
\* the lowest-ranked source left of the identity, if any, takes its place.
remove(cat, id, rank) ==
    LET srcs == {e \in cat.sources : ~(e.id = id /\ e.rank = rank)}
        shadows == {e \in srcs : e.id = id}
    IN IF \E e \in EntriesOf(cat, id) : e.rank = rank
       THEN [apps |-> (cat.apps \ EntriesOf(cat, id))
                         \cup (IF shadows = {} THEN {}
                               ELSE {CHOOSE e \in shadows :
                                        \A o \in shadows : e.rank <= o.rank}),
             sources |-> srcs]
       ELSE [apps |-> cat.apps, sources |-> srcs]

(***************************************************************************)
(* do_wait_on: the poll loop of the daemon.                                *)
(***************************************************************************)
\* getchanges(): the changes the watcher holds, oldest first.
getchanges(pend) == pend

\* The loop over notify.getchanges(), from change i on: cat is the catalog
\* and log the steps taken so far.
RECURSIVE ApplyChanges(_, _, _, _, _)

\* A plausible slip: the loop ends after the first change.
ApplyChanges_first(cat, log, chs, i, d) ==
    IF i > Len(chs) THEN [catalog |-> cat, log |-> log]
    ELSE LET ch == chs[i]
         IN IF ~endswith(ch.name, DotDesktop)
            THEN [catalog |-> cat, log |-> Append(log, "skip")]
            ELSE IF ch.status = "modified"
            THEN [catalog |-> add(cat, d, ch.name, ch.rank), log |-> Append(log, "add")]
            ELSE [catalog |-> remove(cat, ch.name, ch.rank), log |-> Append(log, "remove")]

ApplyChanges(cat, log, chs, i, d) ==
    IF i > Len(chs) THEN [catalog |-> cat, log |-> log]
    ELSE LET ch == chs[i]
         IN IF ~endswith(ch.name, DotDesktop)
            THEN ApplyChanges(cat, Append(log, "skip"), chs, i + 1, d)
            ELSE IF ch.status = "modified"
            THEN ApplyChanges(add(cat, d, ch.name, ch.rank), Append(log, "add"),
                              chs, i + 1, d)
            ELSE ApplyChanges(remove(cat, ch.name, ch.rank), Append(log, "remove"),
                              chs, i + 1, d)

\* A plausible slip: the whole FIFO is read and its last byte kept.
read_all(bs) == [data |-> bs[Len(bs)], rest |-> <<>>]

\* read(fd, &data, sizeof(data)): the oldest byte of the FIFO.
read_byte(bs) == [data |-> Head(bs), rest |-> Tail(bs)]

\* A plausible slip: the readiness of the descriptors is acted on wherever
\* the daemon is, as a signal handler would.
PollReady_anywhere(pc, pend, bs) == pc \in {"poll", "read_choice"} /\ (pend # <<>> \/ bs # <<>>)

\* poll(watch, 2, -1) returns: the daemon is at the top of its loop and the
\* FIFO or the watcher is readable.
PollReady(pc, pend, bs) == pc = "poll" /\ (pend # <<>> \/ bs # <<>>)

(***************************************************************************)
(* Specification SpecDaemon: the daemon from startup on, with files        *)
(* changing under the search roots and clients writing to the FIFO while   *)
(* it runs.                                                                *)
(***************************************************************************)
\* Largest number of file changes under the search roots in one run.
MaxChanges == 2
\* Largest number of bytes written to the control FIFO in one run.
MaxBytes == 2

\* The files the roots hold when the daemon starts: none, foo.desktop in the
\* root of rank 1 only, and foo.desktop in both roots (scenario S4).
DaemonDisks ==
    {NoDisk,
     [NoDisk EXCEPT ![<<FooDesktop, 1>>] = DesktopFile(<<"B">>)],
     [NoDisk EXCEPT ![<<FooDesktop, 0>>] = DesktopFile(<<"A">>),
                    ![<<FooDesktop, 1>>] = DesktopFile(<<"B">>)]}

\* What the files may become while the daemon runs: foo.desktop of the root
\* of rank 0 is deleted, created or rewritten, foo.desktop of the root of
\* rank 1 and foo.txt of the root of rank 0 are deleted or created.
ChangedTo(f, rank) ==
    IF f = FooDesktop /\ rank = 0
    THEN {NoFile, DesktopFile(<<"A">>), DesktopFile(<<"C">>)}
    ELSE IF f = FooDesktop /\ rank = 1
    THEN {NoFile, DesktopFile(<<"B">>)}
    ELSE IF f = FooTxt /\ rank = 0
    THEN {NoFile, DesktopFile(<<"C">>)}
    ELSE {}

\* The bytes clients write to the FIFO.
FifoBytes == {"q", "x"}

\* What the user may type or pick in a session of the daemon.
DaemonChoices == {<<>>, <<"A">>}

DaemonInit ==
    /\ disk \in DaemonDisks
    /\ catalog = EmptyCatalog
    /\ case_insensitive \in BOOLEAN
    /\ orig_mapping = <<>>
    /\ mapping = <<>>
    /\ hist_on \in BOOLEAN
    /\ hist = <<>>
    /\ lines = <<>>
    /\ query = <<>>
    /\ name_lookup = NoLookup
    /\ launched = NoLaunch
    /\ sessions = 0
    /\ no_exec = FALSE
    /\ exit_status = -1
    /\ pending = <<>>
    /\ fifo = <<>>
    /\ d_pc = "main"
    /\ d_status = -1
    /\ d_log = <<>>
    /\ menus = 0
    /\ changes = 0
    /\ bytes = 0
    /\ QuoteIdle
    /\ ExecIdle
    /\ LaunchIdle

\* A file under a search root is created, rewritten or deleted, and the
\* watcher holds one more change.
FileChange(f, rank, file) ==
    /\ d_pc \in {"poll", "read_choice"}
    /\ changes < MaxChanges
    /\ file # disk[<<f, rank>>]
    /\ disk' = [disk EXCEPT ![<<f, rank>>] = file]
    /\ pending' = Append(pending,
                         [name |-> f, rank |-> rank,
                          status |-> IF file = NoFile THEN "deleted" ELSE "modified"])
    /\ changes' = changes + 1
    /\ UNCHANGED <<mvars, catalog, fifo, d_pc, d_status, d_log, menus, bytes,
                   qvars, evars, lvars>>

\* A client writes one byte to the FIFO.
FifoWrite(b) ==
    /\ d_pc \in {"poll", "read_choice"}
    /\ bytes < MaxBytes
    /\ fifo' = Append(fifo, b)
    /\ bytes' = bytes + 1
    /\ UNCHANGED <<mvars, disk, catalog, pending, d_pc, d_status, d_log, menus,
                   changes, qvars, evars, lvars>>

\* One wakeup of the loop, up to the point where it blocks again: poll
\* returns, the changes of the watcher are applied, then the byte of the FIFO
\* is read; 'q' returns 0, any other byte runs the menu and writes its lines,
\* and do_dmenu blocks in read_choice.
Wakeup ==
    /\ PollReady(d_pc, pending, fifo)
    /\ LET watch1 == pending # <<>>
           watch0 == fifo # <<>>
           applied == IF watch1
                      THEN ApplyChanges(catalog, <<"watch1">>, getchanges(pending), 1, disk)
                      ELSE [catalog |-> catalog, log |-> <<"watch1">>]
           rd == IF watch0 THEN read_byte(fifo) ELSE [data |-> "", rest |-> fifo]
       IN /\ catalog' = applied.catalog
          /\ pending' = IF watch1 THEN <<>> ELSE pending
          /\ fifo' = rd.rest
          /\ IF ~watch0
             THEN /\ d_log' = Append(applied.log, "watch0")
                  /\ d_pc' = "poll"
                  /\ UNCHANGED <<d_status, menus, lines, sessions>>
             ELSE IF rd.data = "q"
             THEN /\ d_log' = applied.log \o <<"watch0", "read", "return">>
                  /\ d_pc' = "returned"
                  /\ d_status' = 0
                  /\ UNCHANGED <<menus, lines, sessions>>
             ELSE /\ d_log' = applied.log \o <<"watch0", "read", "run", "write">>
                  /\ d_pc' = "read_choice"
                  /\ menus' = menus + 1
                  /\ sessions' = sessions + 1
                  /\ lines' = do_dmenu_lines(mapping, case_insensitive, hist_on, hist)
                  /\ UNCHANGED d_status
    /\ UNCHANGED <<orig_mapping, case_insensitive, mapping, hist_on, hist, query,
                   name_lookup, launched, no_exec, exit_status, disk, changes, bytes,
                   qvars, evars, lvars>>

\* The rest of the session: the menu process ends with the choice; an empty
\* choice goes back to poll; otherwise lookup_name resolves it; under
\* --no-exec the command is printed and the loop continues; otherwise the
\* history is incremented for a desktop entry and the daemon forks the
\* launch; a failed fork returns 1.
ReadChoice(choice, forked) ==
    /\ d_pc = "read_choice"
    /\ menus' = menus - 1
    /\ query' = choice
    /\ IF ~do_dmenu_query(choice).has_value
       THEN /\ d_log' = Append(d_log, "choice")
            /\ d_pc' = "poll"
            /\ forked
            /\ UNCHANGED <<name_lookup, launched, hist, d_status>>
       ELSE LET r == lookup_name(choice, mapping, case_insensitive)
                is_custom == ~r.found
            IN /\ name_lookup' = r
               /\ hist' = session_history(no_exec, hist_on, is_custom, hist, choice)
               /\ IF no_exec
                  \* the command is printed to stderr and the loop continues
                  THEN /\ d_log' = d_log \o <<"choice", "lookup", "print">>
                       /\ d_pc' = "poll"
                       /\ forked
                       /\ UNCHANGED <<launched, d_status>>
                  ELSE /\ d_log' = d_log \o <<"choice", "lookup">>
                                      \o (IF hist_on /\ ~is_custom
                                          THEN <<"increment">> ELSE <<>>)
                                      \o <<"fork">>
                       /\ IF forked
                          THEN /\ launched' =
                                    IF is_custom
                                    THEN [kind |-> "custom", app |-> <<>>,
                                          args |-> <<>>, command |-> choice]
                                    ELSE [kind |-> "desktop", app |-> r.app,
                                          args |-> r.args, command |-> <<>>]
                               /\ d_pc' = "poll"
                               /\ UNCHANGED d_status
                          ELSE /\ d_pc' = "returned"
                               /\ d_status' = 1
                               /\ UNCHANGED launched
    /\ UNCHANGED <<orig_mapping, case_insensitive, mapping, hist_on, lines, sessions,
                   no_exec, exit_status, disk, catalog, pending, fifo, changes, bytes,
                   qvars, evars, lvars>>

DaemonNext ==
    \/ Startup
    \/ \E f \in FileNames, rank \in Ranks : \E file \in ChangedTo(f, rank) :
          FileChange(f, rank, file)
    \/ \E b \in FifoBytes : FifoWrite(b)
    \/ Wakeup
    \/ \E choice \in DaemonChoices, forked \in BOOLEAN : ReadChoice(choice, forked)

SpecDaemon == DaemonInit /\ [][DaemonNext]_vars

\* The name mapping format_name_app_mapping would build from the catalog cat.
Rebuilt(cat) ==
    format_name_app_mapping(view_name_app_mapping(cat), case_insensitive)

\* The step is one wakeup of the poll loop.
IsWakeup == d_pc = "poll" /\ changes' = changes /\ bytes' = bytes

\* The step is the end of a menu session with a choice.
IsChoice == d_pc = "read_choice" /\ d_pc' # "read_choice" /\ query' # <<>>

(***************************************************************************)
(* C11: in daemon mode the lines a menu session writes and the lookup of   *)
(* its choice use the name mapping rebuilt from the catalog as the changes *)
(* applied so far left it.                                                 *)
(***************************************************************************)
C11_SessionUsesRebuiltMapping ==
    [][/\ (IsWakeup /\ d_pc' = "read_choice")
            => lines' = do_dmenu_lines(Rebuilt(catalog'), case_insensitive, hist_on, hist)
       /\ IsChoice
            => name_lookup' = lookup_name(query', Rebuilt(catalog), case_insensitive)]_vars

\* The positions of log that hold a step of kinds.
Positions(log, kinds) == {i \in 1..Len(log) : log[i] \in kinds}

\* The catalog after the first n changes of chs, each applied by add when it
\* is a modification of a desktop file and by remove when it is a deletion.
RECURSIVE AppliedTo(_, _, _, _)
AppliedTo(cat, chs, n, d) ==
    IF n = 0 THEN cat
    ELSE LET c == AppliedTo(cat, chs, n - 1, d)
             ch == chs[n]
         IN IF ch.name \notin {FooDesktop, BarDesktop} THEN c
            ELSE IF ch.status = "modified" THEN add(c, d, ch.name, ch.rank)
            ELSE remove(c, ch.name, ch.rank)

(***************************************************************************)
(* C12: on every wakeup of the poll loop both readiness flags are          *)
(* inspected, and when the watcher is ready every pending change is        *)
(* applied to the catalog (modified by add, deleted by remove) before the  *)
(* byte of the FIFO is read and before the menu runs.                      *)
(***************************************************************************)
C12_ChangesBeforeFifo ==
    [][IsWakeup =>
          LET log == d_log'
              applies == Positions(log, {"add", "remove", "skip"})
              session == Positions(log, {"read", "return", "run", "write"})
          IN /\ Positions(log, {"watch1"}) # {}
             /\ Positions(log, {"watch0"}) # {}
             /\ pending # <<>> =>
                   /\ pending' = <<>>
                   /\ Cardinality(applies) = Len(pending)
                   /\ \A i \in 1..Len(pending) :
                         log[i + 1] = IF pending[i].name \notin {FooDesktop, BarDesktop}
                                      THEN "skip"
                                      ELSE IF pending[i].status = "modified"
                                      THEN "add" ELSE "remove"
                   /\ catalog' = AppliedTo(catalog, pending, Len(pending), disk)
             /\ \A i \in applies, j \in session : i < j
             /\ fifo # <<>> => Positions(log, {"read"}) # {}]_vars

\* A wakeup applied two changes, an add and a remove, and then ran the menu.
C12_Witness ==
    /\ d_pc = "read_choice"
    /\ Positions(d_log, {"add"}) # {}
    /\ Positions(d_log, {"remove"}) # {}
    /\ d_log[Len(d_log)] = "write"
    /\ pending = <<>>

(***************************************************************************)
(* C13: a wakeup with the FIFO readable reads its oldest byte and no       *)
(* other; the byte 'q' makes the daemon return 0 with no menu session, no  *)
(* history increment and no launch; any other byte starts one menu         *)
(* session, and nothing else starts one, so the sessions started are the   *)
(* bytes read other than 'q'.                                              *)
(***************************************************************************)
C13_OneSessionPerByte ==
    [][/\ (IsWakeup /\ fifo # <<>>) =>
             /\ fifo' = Tail(fifo)
             /\ IF Head(fifo) = "q"
                THEN /\ d_pc' = "returned"
                     /\ d_status' = 0
                     /\ sessions' = sessions
                     /\ menus' = menus
                     /\ hist' = hist
                     /\ launched' = launched
                ELSE /\ d_pc' = "read_choice"
                     /\ sessions' = sessions + 1
                     /\ menus' = menus + 1
       /\ ~(IsWakeup /\ fifo # <<>>) => sessions' = sessions
       /\ bytes' - Len(fifo') =
             sessions' + (IF d_pc' = "returned" /\ d_status' = 0 THEN 1 ELSE 0)]_vars

\* The daemon ran a session for the byte 'x', launched its choice, and then
\* returned 0 on the byte 'q'.
C13_Witness ==
    /\ d_pc = "returned"
    /\ d_status = 0
    /\ sessions = 1
    /\ bytes = 2
    /\ fifo = <<>>
    /\ launched.kind = "desktop"

(***************************************************************************)
(* C14: menu sessions are serialized: at most one menu process exists, it  *)
(* exists exactly while the daemon is blocked in the session, and during a *)
(* session no change is applied to the catalog, no change is taken from    *)
(* the watcher, no byte is read from the FIFO and no other session starts. *)
(***************************************************************************)
C14_SessionsSerialized ==
    [][/\ menus' <= 1
       /\ (menus' = 1) <=> (d_pc' = "read_choice")
       /\ d_pc = "read_choice" =>
             /\ catalog' = catalog
             /\ Len(pending') >= Len(pending)
             /\ Len(fifo') >= Len(fifo)
             /\ sessions' = sessions]_vars

\* While the daemon is blocked in a session a change is pending and a byte
\* waits in the FIFO.
C14_Witness ==
    /\ d_pc = "read_choice"
    /\ menus = 1
    /\ pending # <<>>
    /\ fifo # <<>>

(***************************************************************************)
(* C16: once every change of the files has been applied through add and    *)
(* remove, the catalog equals the catalog a fresh ingest of the files as    *)
(* they are now would build.                                               *)
(***************************************************************************)
C16_IncrementalEqualsBatch ==
    (d_pc = "poll" /\ pending = <<>>)
        => catalog.apps = AppManagerInit(collect_files(Ranks, disk), disk).apps

\* What format_name_app_mapping writes to the log while it builds the
\* mapping: the loop that calls try_emplace logs nothing.
format_name_app_mapping_log(orig, ci) == <<>>

\* The entries of orig that format to a key an earlier entry formats to.
LaterColliding(orig, ci) ==
    {j \in 1..Len(orig) :
        \E i \in 1..(j - 1) :
            Equivalent(ci, format(orig[i], orig[i]), format(orig[j], orig[j]))}

\* No two keys of the mapping are equal under the comparator, and every
\* application is in it unless an earlier one formats to the same key.
UniqueKeysFirstWins ==
    /\ \A i, j \in 1..Len(mapping) :
          i # j => ~Equivalent(case_insensitive, mapping[i].key, mapping[j].key)
    /\ \A j \in 1..Len(orig_mapping) :
          (\E m \in 1..Len(mapping) :
              /\ mapping[m].app = orig_mapping[j]
              /\ mapping[m].key = format(orig_mapping[j], orig_mapping[j]))
          <=> j \notin LaterColliding(orig_mapping, case_insensitive)

(***************************************************************************)
(* C17: the formatted name mapping has no two keys equal under the active  *)
(* comparator; when two applications format to the same key the one        *)
(* inserted first stays, the later one is discarded, and a warning is      *)
(* logged for every application discarded.                                 *)
(***************************************************************************)
C17_UniqueKeysFirstWinsWarned ==
    /\ UniqueKeysFirstWins
    /\ Len(format_name_app_mapping_log(orig_mapping, case_insensitive))
          = Cardinality(LaterColliding(orig_mapping, case_insensitive))

(***************************************************************************)
(* HistoryManager: the history file.                                       *)
(***************************************************************************)
TAB == "\t"
NL == "\n"
DigitChars == <<"0", "1", "2", "3", "4", "5", "6", "7", "8", "9">>

\* The version marker, first line of the file: j4dd history v1.
HistoryMarker ==
    <<"j", "4", "d", "d", " ", "h", "i", "s", "t", "o", "r", "y", " ", "v", "1">>

\* A count in decimal.
RECURSIVE DecimalOf(_)
DecimalOf(n) ==
    IF n < 10 THEN <<DigitChars[n + 1]>>
    ELSE DecimalOf(n \div 10) \o <<DigitChars[(n % 10) + 1]>>

\* The number a string of decimal digits denotes.
RECURSIVE ParseDecimal(_)
ParseDecimal(str) ==
    IF str = <<>> THEN 0
    ELSE LET c == str[Len(str)]
             digit == (CHOOSE i \in 1..10 : DigitChars[i] = c) - 1
         IN 10 * ParseDecimal(SubSeq(str, 1, Len(str) - 1)) + digit

\* The file written: the marker, then one line <count> TAB <name> per entry
\* of positive count.
RECURSIVE HistoryLines(_)
HistoryLines(view) ==
    IF view = <<>> THEN <<>>
    ELSE (IF view[1].count > 0
          THEN DecimalOf(view[1].count) \o <<TAB>> \o view[1].name \o <<NL>>
          ELSE <<>>) \o HistoryLines(Tail(view))

WriteHistory(view) == HistoryMarker \o <<NL>> \o HistoryLines(view)

\* The lines of a text, each without its newline.
RECURSIVE SplitLines(_)
SplitLines(text) ==
    IF text = <<>> THEN <<>>
    ELSE LET nl == Find(text, NL)
         IN IF nl = npos THEN <<text>>
            ELSE <<SubstrTo(text, nl)>> \o SplitLines(SubstrFrom(text, nl + 1))

\* The file read: after the marker every line is a count, a TAB and a name.
ReadHistory(text) ==
    LET all == SplitLines(text)
        entries == IF all # <<>> /\ all[1] = HistoryMarker THEN Tail(all) ELSE all
    IN [i \in 1..Len(entries) |->
           LET tab == Find(entries[i], TAB)
           IN [count |-> ParseDecimal(SubstrTo(entries[i], tab)),
               name |-> SubstrFrom(entries[i], tab + 1)]]

(***************************************************************************)
(* Specification SpecHistory: increments of the history, one per session   *)
(* that launches a desktop entry.                                          *)
(***************************************************************************)
\* Largest number of increments in one run.
MaxIncrements == 4

\* The names incremented: two keys and a key typed with an argument.
HistoryNames == {<<"A">>, <<"B">>, <<"A", " ", "B">>}

\* The history found at startup: none, or one entry about to reach count 10.
HistoryInit ==
    /\ hist_on = TRUE
    /\ hist \in {<<>>, <<[count |-> 9, name |-> <<"A">>]>>}
    /\ orig_mapping = <<>>
    /\ case_insensitive = FALSE
    /\ mapping = <<>>
    /\ lines = <<>>
    /\ query = <<>>
    /\ name_lookup = NoLookup
    /\ launched = NoLaunch
    /\ sessions = 0
    /\ no_exec = FALSE
    /\ exit_status = -1
    /\ QuoteIdle
    /\ ExecIdle
    /\ DaemonIdle
    /\ LaunchIdle

\* hist->increment(*query) of a session whose choice was name.
Increment(name) ==
    /\ sessions < MaxIncrements
    /\ sessions' = sessions + 1
    /\ query' = name
    /\ hist' = HistoryIncrement(hist, name)
    /\ UNCHANGED <<orig_mapping, case_insensitive, mapping, hist_on, lines,
                   name_lookup, launched, no_exec, exit_status, qvars, evars, dvars,
                   lvars>>

HistoryNext == \E name \in HistoryNames : Increment(name)

SpecHistory == HistoryInit /\ [][HistoryNext]_vars

\* The count the list view holds for name (0: none).
CountOf(view, name) ==
    IF \E i \in 1..Len(view) : view[i].name = name
    THEN view[CHOOSE i \in 1..Len(view) : view[i].name = name].count
    ELSE 0

\* The list view without the entries of name.
Without(view, name) == SelectSeq(view, LAMBDA e : e.name # name)

(***************************************************************************)
(* C18: after every increment the list is sorted by descending count,      *)
(* the name incremented stands in front of every other entry of its count  *)
(* while the other entries keep their order (so ties are ordered most      *)
(* recently incremented first), its count is one more than before, every   *)
(* count is positive, each name occurs once, and reading back the file     *)
(* written yields the same (count, name) pairs.                            *)
(***************************************************************************)
C18_HistorySortedAndReadBack ==
    [][LET name == query'
           p == CHOOSE i \in 1..Len(hist') : hist'[i].name = name
       IN /\ \A i, j \in 1..Len(hist') : i < j => hist'[i].count >= hist'[j].count
          /\ \A i \in 1..Len(hist') : hist'[i].count > 0
          /\ \A i, j \in 1..Len(hist') : i # j => hist'[i].name # hist'[j].name
          /\ CountOf(hist', name) = CountOf(hist, name) + 1
          /\ \A i \in 1..Len(hist') :
                hist'[i].count = hist'[p].count => p <= i
          /\ Without(hist', name) = Without(hist, name)
          /\ LET back == ReadHistory(WriteHistory(hist'))
             IN \A e \in {hist'[i] : i \in 1..Len(hist')} \cup {back[i] : i \in 1..Len(back)} :
                   Occurrences(back, e) = Occurrences(hist', e)]_vars

\* Three names were incremented, the last one ties with an older entry and
\* stands in front of it, and a count has two digits.
C18_Witness ==
    /\ sessions = 3
    /\ Len(hist) = 3
    /\ hist[1].count = 10
    /\ hist[2].count = 1
    /\ hist[3].count = 1
    /\ hist[2].name = query

\* No key of the mapping equals name under the active comparator.
NotAKey(name) == MapFind(mapping, case_insensitive, name) = 0

ExecPrefix == <<"e", "x", "e", "c", " ">>
DashE == <<"-", "e">>

\* A plausible slip: "exec " is put in front of custom commands too.
execute_app_always_exec(exec, wrapper, terminal, shell, is_terminal, is_custom, i3) ==
    LET command == ExecPrefix \o (IF wrapper # <<>>
                                  THEN wrapper \o <<SP, DQ>> \o exec \o <<DQ>>
                                  ELSE exec)
    IN IF is_terminal
       THEN IF i3
            THEN [via |-> "i3_exec",
                  argv |-> <<terminal \o <<SP>> \o DashE \o <<SP>> \o shell \o <<SP>>
                               \o DashC \o <<SP, SQ>> \o command \o <<SQ>>>>]
            ELSE [via |-> "execlp", argv |-> <<terminal, DashE, shell, DashC, command>>]
       ELSE IF i3
            THEN [via |-> "i3_exec", argv |-> <<command>>]
            ELSE [via |-> "execl", argv |-> <<shell, DashC, command>>]

\* execute_app: the wrapper goes in front of the quoted command, "exec " in
\* front of a command that is not custom; the result is executed by the
\* terminal or by the shell, or handed to i3 as one message.
execute_app(exec, wrapper, terminal, shell, is_terminal, is_custom, i3) ==
    LET command0 == IF wrapper # <<>>
                    THEN wrapper \o <<SP, DQ>> \o exec \o <<DQ>>
                    ELSE exec
        command == IF ~is_custom THEN ExecPrefix \o command0 ELSE command0
    IN IF is_terminal
       THEN IF i3
            THEN [via |-> "i3_exec",
                  argv |-> <<terminal \o <<SP>> \o DashE \o <<SP>> \o shell \o <<SP>>
                               \o DashC \o <<SP, SQ>> \o command \o <<SQ>>>>]
            ELSE [via |-> "execlp", argv |-> <<terminal, DashE, shell, DashC, command>>]
       ELSE IF i3
            THEN [via |-> "i3_exec", argv |-> <<command>>]
            ELSE [via |-> "execl", argv |-> <<shell, DashC, command>>]

(***************************************************************************)
(* Specification SpecLaunch: the launch that ends a session, for every     *)
(* bounded command and setting.                                            *)
(***************************************************************************)
\* The terminal emulator (--term).
Terminal == <<"t", "e", "r", "m">>

\* The shell main hands down: getenv("SHELL"), here /bin/zsh, or "/bin/sh"
\* when the variable is not set.
BinZsh == <<"/", "b", "i", "n", "/", "z", "s", "h">>

\* What the caller holds: the command (of a desktop entry, or as typed), the
\* wrapper, the shell, the terminal flag of the application looked up,
\* whether the command is custom, whether i3 IPC is on.
LaunchInputs ==
    [command : {<<"a">>, ExecPrefix \o <<"a">>, <<"a", SP, "b">>},
     wrapper : {<<>>, <<"w">>},
     shell : {BinSh, BinZsh},
     app_terminal : BOOLEAN,
     is_custom : BOOLEAN,
     i3 : BOOLEAN]

LaunchInit ==
    /\ l_in \in LaunchInputs
    /\ l_out = NoInvocation
    /\ QuoteIdle
    /\ ExecIdle
    /\ MenuIdle
    /\ DaemonIdle

\* The call of execute_app at the end of a session.
DoLaunch ==
    /\ l_out = NoInvocation
    /\ l_out' = execute_app(l_in.command, l_in.wrapper, Terminal, l_in.shell,
                            IF l_in.is_custom THEN FALSE ELSE l_in.app_terminal,
                            l_in.is_custom, l_in.i3)
    /\ UNCHANGED <<l_in, qvars, evars, mvars, dvars>>

SpecLaunch == LaunchInit /\ [][DoLaunch]_vars

Launched == l_out.via # "none"

\* The chosen application is marked terminal.
ChoseTerminalApp == ~l_in.is_custom /\ l_in.app_terminal

\* The command with the wrapper put in front of it, when one is set.
Wrapped == IF l_in.wrapper = <<>> THEN l_in.command
           ELSE l_in.wrapper \o <<SP, DQ>> \o l_in.command \o <<DQ>>

C21_WrapperVector ==
    [][q_pc' = "wrapped" =>
          /\ q_argv' = q_argv
          /\ Len(q_out') = Len(q_argv) + 5
          /\ q_out'[1] = <<"/", "b", "i", "n", "/", "s", "h">>
          /\ q_out'[2] = <<"-", "c">>
          /\ q_out'[3] = <<"w", "r", "a", "p", "=", "\"", "$", "1", "\"", ";", " ",
                           "s", "h", "i", "f", "t", ";", " ",
                           "$", "w", "r", "a", "p", " ", "\"", "$", "@", "\"">>
          /\ q_out'[4] = <<"/", "b", "i", "n", "/", "s", "h">>
          /\ q_out'[5] = q_wrapper
          /\ \A i \in 1..Len(q_argv) : q_out'[5 + i] = q_argv[i]]_vars

\* A two-argument vector was wrapped with the two-word wrapper.
C21_Witness ==
    /\ q_pc = "wrapped"
    /\ Len(q_argv) = 2
    /\ q_argv[1] # q_argv[2]
    /\ q_wrapper = <<"w", SP, "-", "x">>
    /\ Len(q_out) = 7
    /\ q_out[6] = q_argv[1]

\* The encoding of the character at position i of s: a single quote becomes
\* '\'' , or '\' in last position; any other character stays.
QuotedChar(s, i) ==
    IF s[i] # "'" THEN <<s[i]>>
    ELSE IF i = Len(s) THEN <<"'", "\\", "'">>
    ELSE <<"'", "\\", "'", "'">>

RECURSIVE QuotedFrom(_, _)
QuotedFrom(s, i) ==
    IF i > Len(s) THEN <<>> ELSE QuotedChar(s, i) \o QuotedFrom(s, i + 1)

(***************************************************************************)
(* C22: sq_quote wraps its input in single quotes, replaces each embedded  *)
(* single quote by the four characters '\'' and encodes a single quote in  *)
(* last position as the three characters '\' with no closing quote;        *)
(* sq_quote("it's a test") is 'it'\''s a test', sq_quote("end'") is        *)
(* 'end'\', sq_quote("plain") is 'plain', and an input without a single    *)
(* quote gives exactly the input between two single quotes.                *)
(***************************************************************************)
C22_SqQuoteEncoding ==
    q_pc = "quoted" =>
        LET s == q_argv[1]
            lastq == s # <<>> /\ s[Len(s)] = "'"
        IN /\ q_out = <<"'">> \o QuotedFrom(s, 1) \o (IF lastq THEN <<>> ELSE <<"'">>)
           /\ s = ItsATest =>
                 q_out = <<"'", "i", "t", "'", "\\", "'", "'", "s", " ", "a", " ",
                           "t", "e", "s", "t", "'">>
           /\ s = EndQuote => q_out = <<"'", "e", "n", "d", "'", "\\", "'">>
           /\ s = Plain => q_out = <<"'", "p", "l", "a", "i", "n", "'">>
           /\ (\A i \in 1..Len(s) : s[i] # "'") => q_out = <<"'">> \o s \o <<"'">>

\* sq_quote ran on end', whose single quote is in last position, and the
\* result has no closing quote after the backslash sequence.
C22_Witness ==
    /\ q_pc = "quoted"
    /\ q_argv = <<EndQuote>>
    /\ Len(q_out) = 7
    /\ SubSeq(q_out, 5, 7) = <<SQ, BSL, SQ>>

\* The four tokens of the wine key: wine, start, /unix and the path
\* C:\Program Files\App\app.exe, each backslash of the path once.
WineArgv ==
    <<<<"w", "i", "n", "e">>, <<"s", "t", "a", "r", "t">>, <<"/", "u", "n", "i", "x">>,
      <<"C", ":", BSL, "P", "r", "o", "g", "r", "a", "m", SP, "F", "i", "l",
      "e", "s", BSL, "A", "p", "p", BSL, "a", "p", "p", ".", "e", "x", "e">>>>

\* The same tokens with each backslash of the path twice, as the key has them.
WineArgvDoubled ==
    <<<<"w", "i", "n", "e">>, <<"s", "t", "a", "r", "t">>, <<"/", "u", "n", "i", "x">>,
      <<"C", ":", BSL, BSL, "P", "r", "o", "g", "r", "a", "m", SP, "F", "i",
      "l", "e", "s", BSL, BSL, "A", "p", "p", BSL, BSL, "a", "p", "p", ".",
      "e", "x", "e">>>>

\* The key was accepted: no diagnostic from the validator, no invalid_Exec
\* from the tokenizer.
WineAccepted == e_diag = Nullopt /\ ~e_conv.thrown

(***************************************************************************)
(* C23 as stated: the Exec key wine start /unix "C:\\Program Files\\..."    *)
(* validates and tokenizes only when extra_wine_escaping is true, and then *)
(* yields the four-token argv wine, start, /unix and the path (read with   *)
(* the backslashes once or twice); with the quirk off it is rejected.      *)
(***************************************************************************)
C23_WineOnlyWithQuirk ==
    (e_key = WineExec /\ Validated /\ Converted) =>
        /\ WineAccepted <=> e_quirks.extra_wine_escaping
        /\ e_quirks.extra_wine_escaping => e_conv.argv \in {WineArgv, WineArgvDoubled}

(***************************************************************************)
(* C23 as amended: the Exec key wine start /unix "C:\\Program Files\\..."   *)
(* validates and tokenizes under every setting of the quirks, and yields   *)
(* the four-token argv wine, start, /unix and the path with each           *)
(* backslash once.                                                         *)
(***************************************************************************)
C23_WineAcceptedAmended ==
    e_key = WineExec =>
        /\ Validated => e_diag = Nullopt
        /\ Converted => ~e_conv.thrown /\ e_conv.argv = WineArgv

\* The wine key was validated and tokenized with both quirks off.
C23_Witness ==
    /\ e_key = WineExec
    /\ NoQuirks
    /\ Validated /\ Converted
    /\ WineAccepted
    /\ Len(e_conv.argv) = 4
    /\ Len(e_conv.argv[4]) = Len(WineArgvDoubled[4]) - 3

(***************************************************************************)
(* Specification SpecSessions: menu sessions of both modes, with and       *)
(* without --no-exec. A run starts either in one-shot mode with its name   *)
(* mapping built, or in daemon mode before the catalog is ingested.        *)
(***************************************************************************)
\* What the user may type or pick: nothing, the name of an application, a
\* word that matches no application.
SessionChoices == {<<>>, <<"A">>, <<"Z">>}

SessionsInit ==
    /\ no_exec \in BOOLEAN
    /\ hist_on \in BOOLEAN
    /\ hist = <<>>
    /\ case_insensitive = FALSE
    /\ lines = <<>>
    /\ query = <<>>
    /\ name_lookup = NoLookup
    /\ launched = NoLaunch
    /\ sessions = 0
    /\ exit_status = -1
    /\ \/ /\ orig_mapping = <<<<"A">>>>
          /\ mapping = format_name_app_mapping(orig_mapping, case_insensitive)
          /\ DaemonIdle
       \/ /\ orig_mapping = <<>>
          /\ mapping = <<>>
          /\ disk = [NoDisk EXCEPT ![<<FooDesktop, 0>>] = DesktopFile(<<"A">>)]
          /\ catalog = EmptyCatalog
          /\ pending = <<>>
          /\ fifo = <<>>
          /\ d_pc = "main"
          /\ d_status = -1
          /\ d_log = <<>>
          /\ menus = 0
          /\ changes = 0
          /\ bytes = 0
    /\ QuoteIdle
    /\ ExecIdle
    /\ LaunchIdle

SessionsNext ==
    \/ \E choice \in SessionChoices : MenuSession(choice)
    \/ Startup
    \/ \E f \in FileNames, rank \in Ranks : \E file \in ChangedTo(f, rank) :
          FileChange(f, rank, file)
    \/ \E b \in FifoBytes : FifoWrite(b)
    \/ Wakeup
    \/ \E choice \in SessionChoices, forked \in BOOLEAN : ReadChoice(choice, forked)

SpecSessions == SessionsInit /\ [][SessionsNext]_vars

\* The step is the end of a menu session of one-shot mode.
IsOneShotSession == d_pc = "idle" /\ sessions' = sessions + 1

\* The step is the end of a menu session of the daemon.
IsDaemonSession == d_pc = "read_choice" /\ d_pc' # "read_choice"

(***************************************************************************)
(* C24: when the menu returns an empty line or end of file, no history     *)
(* entry is incremented and no process is launched; in one-shot mode the   *)
(* program exits with status 0, and in daemon mode the daemon does not     *)
(* terminate but returns to the poll loop, where a byte of the FIFO wakes  *)
(* it up again.                                                            *)
(***************************************************************************)
C24_CancelLaunchesNothing ==
    [][((IsOneShotSession \/ IsDaemonSession) /\ query' = <<>>) =>
          /\ hist' = hist
          /\ IsOneShotSession => launched' = NoLaunch /\ exit_status' = 0
          /\ IsDaemonSession =>
                /\ launched' = launched
                /\ ~("fork" \in {d_log'[i] : i \in 1..Len(d_log')})
                /\ d_pc' = "poll"
                /\ d_status' = -1
                /\ fifo' # <<>> => PollReady(d_pc', pending', fifo')]_vars

\* The daemon is in its second menu session after the first one was
\* cancelled: nothing was launched and the history is empty.
C24_Witness ==
    /\ d_pc = "read_choice"
    /\ sessions = 2
    /\ query = <<>>
    /\ launched = NoLaunch
    /\ hist = <<>>
    /\ hist_on
    /\ ~no_exec
    /\ d_status = -1

(***************************************************************************)
(* C25: every name passed to the history increment is the display key of   *)
(* the application the choice resolved to, a key of the name mapping as    *)
(* shown: a choice resolved by prefix match with trailing arguments, or    *)
(* typed in another letter case under the case-insensitive comparator,     *)
(* increments the entry of the matched key and creates no entry under the  *)
(* typed text; a custom command never increments the history.              *)
(***************************************************************************)
C25_IncrementsDisplayKey ==
    [][(sessions' = sessions + 1) =>
          /\ ~name_lookup'.found => hist' = hist
          /\ hist' # hist =>
                \E i \in 1..Len(mapping) :
                    /\ mapping[i].app = name_lookup'.app
                    /\ hist' = HistoryIncrement(hist, mapping[i].key)]_vars

(***************************************************************************)
(* C26: a choice that resolves to no application is executed as a custom   *)
(* command with the choice string unchanged as the command string, under   *)
(* /bin/sh -c, whatever the SHELL environment variable and the wrapper     *)
(* option are.                                                             *)
(***************************************************************************)
C26_CustomUnderBinSh ==
    (Launched /\ l_in.is_custom /\ ~l_in.i3) =>
        l_out.argv = <<<<"/", "b", "i", "n", "/", "s", "h">>, <<"-", "c">>, l_in.command>>

(***************************************************************************)
(* C27: when a wrapper W is configured, the launch hands the application's *)
(* arguments to W as separate, unaltered arguments, in the form /bin/sh,   *)
(* -c, the script, /bin/sh, W, a0, a1, ..., so that the wrapper receives   *)
(* exactly the argv the application would have received without a wrapper. *)
(* Stated for the launches outside a terminal and outside i3 IPC of a      *)
(* desktop entry whose command is made of literal words a0, a1, ...        *)
(***************************************************************************)
C27_WrapperGetsArgv ==
    (/\ Launched
     /\ l_in.wrapper # <<>>
     /\ ~l_in.is_custom /\ ~l_in.app_terminal /\ ~l_in.i3
     /\ ShWords(l_in.command).ok)
    => l_out.argv = <<<<"/", "b", "i", "n", "/", "s", "h">>, <<"-", "c">>,
                      <<"w", "r", "a", "p", "=", "\"", "$", "1", "\"", ";", " ",
                        "s", "h", "i", "f", "t", ";", " ",
                        "$", "w", "r", "a", "p", " ", "\"", "$", "@", "\"">>,
                      <<"/", "b", "i", "n", "/", "s", "h">>, l_in.wrapper>>
                    \o ShWords(l_in.command).words

(***************************************************************************)
(* Specification SpecLookup: one-shot runs over catalogs with nested       *)
(* names, such as A and A B, and choices that extend them.                 *)
(***************************************************************************)
NestedNames == {<<"A">>, <<"A", SP, "B">>, <<"a">>, <<"B">>}

NestedCatalogs ==
    {o \in UNION {[1..k -> NestedNames] : k \in 0..MaxApps} :
        \A i, j \in 1..Len(o) : i # j => o[i] # o[j]}

LookupChoices ==
    {<<"A", SP, "B", SP, "C">>, <<"A", SP, "B">>, <<"A", "B">>,
     <<"a", SP, "B", SP, "C">>, <<"Z">>}

LookupInit ==
    /\ orig_mapping \in NestedCatalogs
    /\ case_insensitive \in BOOLEAN
    /\ mapping = format_name_app_mapping(orig_mapping, case_insensitive)
    /\ hist_on = FALSE
    /\ hist = <<>>
    /\ lines = <<>>
    /\ query = <<>>
    /\ name_lookup = NoLookup
    /\ launched = NoLaunch
    /\ sessions = 0
    /\ no_exec = FALSE
    /\ exit_status = -1
    /\ QuoteIdle
    /\ ExecIdle
    /\ DaemonIdle
    /\ LaunchIdle

LookupNext == \E choice \in LookupChoices : MenuSession(choice)

SpecLookup == LookupInit /\ [][LookupNext]_vars

\* The entries of the mapping whose key is a byte prefix of the string q.
PrefixKeys(q) ==
    {i \in 1..Len(mapping) :
        /\ Len(mapping[i].key) <= Len(q)
        /\ \A n \in 1..Len(mapping[i].key) : mapping[i].key[n] = q[n]}

(***************************************************************************)
(* C28: when a choice equals no key and several keys of the mapping are    *)
(* prefixes of it, lookup_name returns the application of the first such   *)
(* key in the comparator order of the mapping, with the rest of the choice *)
(* as args (for the nested keys A and A B this is the shorter key A), and  *)
(* a second call with the same mapping and choice returns the same.        *)
(***************************************************************************)
C28_FirstPrefixInOrder ==
    [][(sessions' = sessions + 1) =>
          /\ (/\ \A k \in MappingKeys : ~SameKey(case_insensitive, k, query')
              /\ Cardinality(PrefixKeys(query')) >= 2)
             => \E i \in PrefixKeys(query') :
                   /\ \A j \in PrefixKeys(query') \ {i} :
                         DynamicCompare(case_insensitive, mapping[i].key, mapping[j].key)
                   /\ name_lookup'.found
                   /\ name_lookup'.app = mapping[i].app
                   /\ mapping[i].key \o name_lookup'.args = query'
          /\ (sessions >= 1 /\ query' = query) => name_lookup' = name_lookup]_vars

\* The keys A and A B are both prefixes of the choice A B C, and the lookup
\* gave the application of A with the args " B C".
C28_Witness ==
    /\ query = <<"A", SP, "B", SP, "C">>
    /\ {<<"A">>, <<"A", SP, "B">>} \subseteq MappingKeys
    /\ name_lookup.found
    /\ name_lookup.app = <<"A">>
    /\ name_lookup.args = <<SP, "B", SP, "C">>
    /\ sessions = 2

(***************************************************************************)
(* C29: with --no-exec set, in both modes, a menu session never increments *)
(* the history and never forks or executes a process, whatever the choice  *)
(* is; in daemon mode the loop then goes on serving the bytes of the FIFO  *)
(* and in one-shot mode the program exits with status 0.                   *)
(***************************************************************************)
C29_NoExecLaunchesNothing ==
    [][((IsOneShotSession \/ IsDaemonSession) /\ no_exec) =>
          /\ hist' = hist
          /\ IsOneShotSession => launched' = NoLaunch /\ exit_status' = 0
          /\ IsDaemonSession =>
                /\ launched' = launched
                /\ ~("fork" \in {d_log'[i] : i \in 1..Len(d_log')})
                /\ d_pc' = "poll"
                /\ d_status' = -1
                /\ fifo' # <<>> => PollReady(d_pc', pending', fifo')]_vars

\* Under --no-exec with a history, the daemon is in its second menu session
\* after a first one in which an application was chosen: the choice was
\* looked up, nothing was launched and the history is empty.
C29_Witness ==
    /\ no_exec
    /\ hist_on
    /\ d_pc = "read_choice"
    /\ sessions = 2
    /\ query = <<"A">>
    /\ name_lookup.found
    /\ launched = NoLaunch
    /\ hist = <<>>

====
